---- MODULE Spec2Model ----
(***************************************************************************)
(* Model of app.py: the /progress job (worker thread + streaming           *)
(* generator), the JOBS registry with its reclamation timers, the one-shot *)
(* /download/<token> route and the synchronous /fetch route.               *)
(*                                                                         *)
(* Python strings are sequences of one-character strings; Python None is   *)
(* the value None.  A temp directory is named by the request that made it. *)
(***************************************************************************)
EXTENDS Naturals, Integers, Sequences, FiniteSets, TLC

\* Python None where a str is expected (distinct from every string, also the
\* empty one) and where a dict or a number is expected
None == <<"None">>
Null == [none |-> TRUE]

\* ---------------------------------------------------------------------
\* Bounds of the model
\* ---------------------------------------------------------------------
\* progress_hook calls the engine makes during one job
MaxHooks == 1
\* keep-alive comments recorded in one job's stream
MaxKeepAlive == 1
\* ticks of the wall clock while no reclamation timer is pending
MaxTicks == 0
\* concurrent GET /download/<token> requests
NumDownloads == 2
\* byte counts the engine reports to progress_hook range over 0..MaxBytes
MaxBytes == 3
\* length of the short titles sanitize_filename is called with
MaxNameLen == 4
\* files the engine leaves in a temp directory, entries of a playlist
MaxFiles == 2
MaxEntries == 2

\* ---------------------------------------------------------------------
\* Configuration (app.py:17, app.py:24)
\* ---------------------------------------------------------------------
AUTO_CLEANUP_SECONDS == 10 * 60

\* seconds the wall clock advances in one tick of the model
TickSeconds == 400

\* the values os.environ.get('API_KEY') can have at start-up
Secret == <<"s", "3">>
ApiKeyConfigs == {None, Secret}

\* X-API-Key header values a request can carry (None: header absent)
HeaderKeys == {None, <<>>, Secret, <<"s">>, <<"S", "3">>}

\* ---------------------------------------------------------------------
\* Strings
\* ---------------------------------------------------------------------
UpperChars == <<"A","B","C","D","E","F","G","H","I","J","K","L","M",
                "N","O","P","Q","R","S","T","U","V","W","X","Y","Z">>
LowerChars == <<"a","b","c","d","e","f","g","h","i","j","k","l","m",
                "n","o","p","q","r","s","t","u","v","w","x","y","z">>

\* str.lower(), one character
LowerChar(c) ==
    IF \E i \in 1..Len(UpperChars) : UpperChars[i] = c
    THEN LowerChars[CHOOSE i \in 1..Len(UpperChars) : UpperChars[i] = c]
    ELSE c

\* str.lower()
Lower(s) == [i \in 1..Len(s) |-> LowerChar(s[i])]

\* the Python test `sub in s` on strings
Contains(s, sub) ==
    \E i \in 0..(Len(s) - Len(sub)) : SubSeq(s, i + 1, i + Len(sub)) = sub

\* truth value of an optional str: None and "" are falsy
Truthy(s) == s # None /\ s # <<>>

YT_WATCH == <<"y","o","u","t","u","b","e",".","c","o","m","/","w","a","t","c","h">>
YT_PLAYLIST == <<"y","o","u","t","u","b","e",".","c","o","m","/","p","l","a","y","l","i","s","t">>
YT_SHORT == <<"y","o","u","t","u",".","b","e","/">>

is_youtube_url(url) ==
    IF ~Truthy(url) THEN FALSE
    ELSE LET u == Lower(url)
         IN  Contains(u, YT_WATCH) \/ Contains(u, YT_PLAYLIST) \/ Contains(u, YT_SHORT)

\* url query parameters a request can carry (None: parameter absent)
Urls ==
    { None,
      <<>>,
      YT_WATCH \o <<"?","v","=","a">>,
      <<"W","w","w",".","Y","o","u","T","u","b","e",".","C","O","M","/","W","a","t","c","h">>,
      <<"m",".">> \o YT_PLAYLIST \o <<"?","l","i","s","t","=","1">>,
      <<"h","t","t","p","s",":","/","/">> \o YT_SHORT \o <<"x">>,
      <<"y","o","u","t","u",".","b","e">>,
      <<"y","o","u","t","u","b","e",".","c","o","m","/">>,
      <<"v","i","m","e","o",".","c","o","m","/","w","a","t","c","h">> }

\* is_youtube_url on the urls of the model, computed once
UrlOk == [u \in Urls |-> is_youtube_url(u)]

\* ---------------------------------------------------------------------
\* sanitize_filename (app.py:60-67)
\* ---------------------------------------------------------------------
\* the characters of the class [\\/:*?"<>|]
UnsafeChars == {"\\", "/", ":", "*", "?", "\"", "<", ">", "|"}

\* the characters \s matches and str.strip() strips, as far as the model
\* has them
WhitespaceChars == {" ", "\t", "\n", "\r", "\f"}

IsSpace(c) == c \in WhitespaceChars

\* re.sub(r'[\\/:*?"<>|]+', '', name)
RemoveUnsafe(s) ==
    LET Safe(c) == c \notin UnsafeChars IN SelectSeq(s, Safe)

\* re.sub left as it found the string
CollapseNot(s) == s

\* re.sub(r'\s+', ' ', name): every maximal run of whitespace becomes one
\* space; a whitespace character is kept (as a space) when it starts a run
Collapse(s) ==
    LET Starts(i) == IsSpace(s[i]) /\ (i = 1 \/ ~IsSpace(s[i - 1]))
        Kept == {i \in 1..Len(s) : ~IsSpace(s[i]) \/ Starts(i)}
        \* the k-th kept index
        Nth(k) == CHOOSE i \in Kept : Cardinality({j \in Kept : j <= i}) = k
    IN  [k \in 1..Cardinality(Kept) |->
            IF IsSpace(s[Nth(k)]) THEN " " ELSE s[Nth(k)]]

\* str.rstrip() and str.strip()
RStrip(s) ==
    LET Solid == {i \in 1..Len(s) : ~IsSpace(s[i])}
    IN  IF Solid = {} THEN << >>
        ELSE SubSeq(s, 1, CHOOSE i \in Solid : \A j \in Solid : j <= i)
Strip(s) ==
    LET Solid == {i \in 1..Len(s) : ~IsSpace(s[i])}
    IN  IF Solid = {} THEN << >>
        ELSE SubSeq(s, CHOOSE i \in Solid : \A j \in Solid : i <= j,
                       CHOOSE i \in Solid : \A j \in Solid : j <= i)

\* name[:n]
Slice(s, n) == SubSeq(s, 1, IF Len(s) < n THEN Len(s) ELSE n)

Untitled == <<"u","n","t","i","t","l","e","d">>

\* the default of the parameter max_length
DEFAULT_MAX_LENGTH == 200

sanitize_filename(name, max_length) ==
    IF ~Truthy(name) THEN Untitled
    ELSE LET collapsed == Strip(Collapse(RemoveUnsafe(name)))
             capped == IF Len(collapsed) > max_length
                       THEN RStrip(Slice(collapsed, max_length))
                       ELSE collapsed
         IN  IF Truthy(capped) THEN capped ELSE Untitled

\* the string of n characters c
Repeat(c, n) == [i \in 1..n |-> c]

\* all strings over the alphabet cs of length n, and of length at most n
RECURSIVE StringsOfLen(_, _)
StringsOfLen(cs, n) ==
    IF n = 0 THEN {<< >>}
    ELSE {<<c>> \o s : c \in cs, s \in StringsOfLen(cs, n - 1)}
StringsUpTo(cs, n) == UNION {StringsOfLen(cs, k) : k \in 0..n}

\* the title "  My:/Song*?  "
TitleMySong == <<" "," ","M","y",":","/","S","o","n","g","*","?"," "," ">>

\* titles longer than max_length: one whose cut falls right after a space,
\* one without any space, one whose cut falls inside a run of unsafe
\* characters
LongTitles ==
    { Repeat("a", DEFAULT_MAX_LENGTH - 1) \o <<" ", "b", "c">>,
      Repeat("a", DEFAULT_MAX_LENGTH + 1),
      Repeat("a", DEFAULT_MAX_LENGTH - 1) \o <<":", "\t", "/", " ", "b">> }

\* the characters short titles are made of
TitleChars == {"a", " ", "\t", ":", "|"}

\* the names sanitize_filename is called with
Names ==
    {None, TitleMySong} \cup LongTitles \cup StringsUpTo(TitleChars, MaxNameLen)

\* ---------------------------------------------------------------------
\* progress_hook (app.py:323-341) and the events it pushes
\* ---------------------------------------------------------------------
RECURSIVE Gcd(_, _)
Gcd(a, b) == IF b = 0 THEN a ELSE Gcd(b, a % b)

\* the number num/den in lowest terms: the value of a Python float quotient
Ratio(num, den) ==
    LET g == Gcd(num, den) IN [num |-> num \div g, den |-> den \div g]

\* d.get(k) of a dict whose values are numbers: Null when the key is absent
Has(d, k) == k \in DOMAIN d
Get(d, k) == IF Has(d, k) THEN d[k] ELSE Null

\* d.get(k) or 0
GetOr0(d, k) == IF Has(d, k) THEN d[k] ELSE 0

\* total = d.get('total_bytes') or d.get('total_bytes_estimate') or 0
HookTotal(d) ==
    IF GetOr0(d, "total_bytes") # 0 THEN d["total_bytes"]
    ELSE GetOr0(d, "total_bytes_estimate")

\* downloaded = d.get('downloaded_bytes') or 0
HookDownloaded(d) == GetOr0(d, "downloaded_bytes")

\* percent = (downloaded / total * 100) if total else None
HookPercent(d) ==
    IF HookTotal(d) # 0 THEN Ratio(HookDownloaded(d) * 100, HookTotal(d)) ELSE Null

\* sse_event(name, data): the text "event: <name>\ndata: <json of data>\n\n",
\* kept as its two parts
sse_event(name, data) == [event |-> name, data |-> data]

\* the comment line ": keep-alive\n\n"
KeepAlive == [event |-> ":keep-alive", data |-> Null]

\* the events one call progress_hook(d) appends to the queue
progress_hook(d) ==
    IF Get(d, "status") = "downloading"
    THEN << sse_event("progress",
                      [status |-> "downloading", percent |-> HookPercent(d),
                       speed |-> Get(d, "speed"), eta |-> Get(d, "eta"),
                       filename |-> Get(d, "filename")]) >>
    ELSE IF Get(d, "status") = "finished"
    THEN << sse_event("progress", [status |-> "download finished, converting..."]) >>
    ELSE << >>

\* a dict the engine passes to progress_hook; a byte count of -1 stands for
\* a key the dict does not have
EmptyDict == [k \in {} |-> 0]
HookDict(st, tb, te, db) ==
    [k \in {"status"} |-> st]
    @@ (IF tb >= 0 THEN [k \in {"total_bytes"} |-> tb] ELSE EmptyDict)
    @@ (IF te >= 0 THEN [k \in {"total_bytes_estimate"} |-> te] ELSE EmptyDict)
    @@ (IF db >= 0 THEN [k \in {"downloaded_bytes"} |-> db] ELSE EmptyDict)

ByteCounts == (0..MaxBytes) \cup {-1}
HookStatuses == {"downloading", "finished", "error"}
HookDicts ==
    { HookDict(st, tb, te, db) :
        st \in HookStatuses, tb \in ByteCounts, te \in ByteCounts, db \in ByteCounts }

\* the hook calls one job of the system sees: the k-th call reports k of
\* MaxBytes bytes downloaded
JobHookDict(k) == HookDict("downloading", MaxBytes, -1, k)
JobHookDicts == { JobHookDict(k) : k \in 1..MaxHooks }

\* ---------------------------------------------------------------------
\* The deliverable of a download (app.py:349-381, app.py:523-558)
\* ---------------------------------------------------------------------
\* info is what extract_info returned: [title, id, entries], entries being
\* the list info['entries'], each entry Null or [title, id], and the empty
\* list also when info has no such key (the code treats both alike).
\* listing is os.listdir(tempdir), in the order the system gives it.
Mp3Ext == <<".","m","p","3">>
ZipExt == <<".","z","i","p">>

\* str.endswith
EndsWith(s, suffix) ==
    Len(s) >= Len(suffix) /\ SubSeq(s, Len(s) - Len(suffix) + 1, Len(s)) = suffix

\* fname.lower().endswith('.mp3')
IsMp3(fname) == EndsWith(Lower(fname), Mp3Ext)

\* a or b, on optional strings
Or(a, b) == IF Truthy(a) THEN a ELSE b

\* os.path.exists(os.path.join(tempdir, fname))
Exists(listing, fname) == \E i \in 1..Len(listing) : listing[i] = fname

\* 'entries' in info and info['entries']
IsPlaylist(info) == info.entries # << >>

Playlist == <<"p","l","a","y","l","i","s","t">>
Video == <<"v","i","d","e","o">>

\* sanitize_filename(entry.get('title') or entry.get('id') or 'untitled')
EntryTitle(entry) ==
    sanitize_filename(Or(Or(entry.title, entry.id), Untitled), DEFAULT_MAX_LENGTH)

\* a test that takes every .mp3 file
EntryMatchesAny(entry, fname) == IsMp3(fname)

\* the test of app.py:362-363 on one file of the listing
EntryMatches(entry, fname) ==
    /\ IsMp3(fname)
    /\ \/ Truthy(entry.id) /\ Contains(fname, entry.id)
       \/ Contains(fname, EntryTitle(entry))

\* the arcnames one entry adds to the archive: its exact file, else the
\* first file of the listing that matches, else nothing
EntryArcnames(entry, listing) ==
    IF Exists(listing, EntryTitle(entry) \o Mp3Ext)
    THEN << EntryTitle(entry) \o Mp3Ext >>
    ELSE LET hits == {i \in 1..Len(listing) : EntryMatches(entry, listing[i])}
         IN  IF hits = {} THEN << >>
             ELSE << listing[CHOOSE i \in hits : \A j \in hits : i <= j] >>

\* for entry in info['entries']: if not entry: continue ...
RECURSIVE ZipMembers(_, _)
ZipMembers(entries, listing) ==
    IF entries = << >> THEN << >>
    ELSE (IF Head(entries) = Null THEN << >>
          ELSE EntryArcnames(Head(entries), listing))
         \o ZipMembers(Tail(entries), listing)

\* sanitize_filename(info.get('title') or info.get('id') or 'video')
SingleTitle(info) ==
    sanitize_filename(Or(Or(info.title, info.id), Video), DEFAULT_MAX_LENGTH)

\* mp3s = [f for f in os.listdir(tempdir) if f.lower().endswith('.mp3')]
Mp3s(listing) == SelectSeq(listing, IsMp3)

\* the file name of mp3_path, None when RuntimeError is raised
SingleFile(info, listing) ==
    LET title == SingleTitle(info)
        mp3s == Mp3s(listing)
        hits == {i \in 1..Len(mp3s) : Contains(mp3s[i], title)}
    IN  IF Exists(listing, title \o Mp3Ext) THEN title \o Mp3Ext
        ELSE IF Len(mp3s) = 1 THEN mp3s[1]
        ELSE IF Len(mp3s) > 1
             THEN (IF hits = {} THEN mp3s[1]
                   ELSE mp3s[CHOOSE i \in hits : \A j \in hits : i <= j])
        ELSE None

\* final_name and, for a playlist, the arcnames written to the archive.  The
\* archive is made in tempdir before the entries are looked up, so it is in
\* the listing by then; it does not end in .mp3 and is never looked at.
Deliverable(info, listing) ==
    IF IsPlaylist(info)
    THEN [name |-> sanitize_filename(Or(info.title, Playlist), DEFAULT_MAX_LENGTH) \o ZipExt,
          zip |-> TRUE, members |-> ZipMembers(info.entries, listing)]
    ELSE [name |-> SingleFile(info, listing), zip |-> FALSE, members |-> << >>]

\* ---- what the engine can return and leave in the temp directory ----
SongOne == <<"S","o","n","g"," ","O","n","e">>
SongTwo == <<"S","o","n","g"," ","T","w","o">>
IdA == <<"a">>
IdB == <<"b">>
FileSongOne == SongOne \o Mp3Ext
FileBSongTwo == <<"b","_","S","o","n","g","_","T","w","o">> \o Mp3Ext
FileSongTwoUpper == <<"x"," ">> \o SongTwo \o <<".","M","P","3">>
FileWebm == <<"S","o","n","g"," ","T","w","o",".","w","e","b","m">>

EngineTitles == {None, SongOne, SongTwo}
EngineIds == {None, IdA, IdB}
EngineFiles == {FileSongOne, FileBSongTwo, FileSongTwoUpper, FileWebm}

\* sequences of distinct elements of a set, of length n and up to n
RECURSIVE ArrangementsOfLen(_, _)
ArrangementsOfLen(S, n) ==
    IF n = 0 THEN {<< >>}
    ELSE {<<x>> \o t : x \in S, t \in ArrangementsOfLen(S, n - 1)}
Arrangements(S, n) ==
    {t \in UNION {ArrangementsOfLen(S, k) : k \in 0..n} :
        \A i, j \in 1..Len(t) : i # j => t[i] # t[j]}

\* sequences of elements of a set, of length up to n
RECURSIVE TuplesOfLen(_, _)
TuplesOfLen(S, n) ==
    IF n = 0 THEN {<< >>}
    ELSE {<<x>> \o t : x \in S, t \in TuplesOfLen(S, n - 1)}
TuplesUpTo(S, n) == UNION {TuplesOfLen(S, k) : k \in 0..n}

Listings == Arrangements(EngineFiles, MaxFiles)
Entries == {Null} \cup {[title |-> t, id |-> i] : t \in EngineTitles, i \in EngineIds}
\* single items, and playlists (whose own id is never read)
Infos ==
    {[title |-> t, id |-> i, entries |-> << >>] : t \in EngineTitles, i \in {None, IdA}}
    \cup {[title |-> t, id |-> None, entries |-> es] :
             t \in {None, SongOne}, es \in TuplesUpTo(Entries, MaxEntries) \ {<< >>}}

\* the example: entries a "Song One" and b "Song Two", files Song One.mp3
\* and b_Song_Two.mp3
ExampleInfo ==
    [title |-> None, id |-> None,
     entries |-> << [title |-> SongOne, id |-> IdA], [title |-> SongTwo, id |-> IdB] >>]
ExampleListings ==
    { << FileSongOne, FileBSongTwo >>, << FileBSongTwo, FileSongOne >> }

\* ---------------------------------------------------------------------
\* The external engine: what YoutubeDL.extract_info and the assembly of the
\* deliverable (app.py:345-381) end in
\* ---------------------------------------------------------------------
MsgEngine == <<"e","n","g","i","n","e">>
MsgNotFound == <<"e","x","p","e","c","t","e","d"," ","m","p","3"," ","f","i","l","e"," ",
                 "n","o","t"," ","f","o","u","n","d"," ","a","f","t","e","r"," ",
                 "d","o","w","n","l","o","a","d">>
MsgTimer == <<"c","a","n","'","t"," ","s","t","a","r","t"," ","n","e","w"," ",
              "t","h","r","e","a","d">>
MsgUnknown == <<"u","n","k","n","o","w","n"," ","e","r","r","o","r">>

\* a title that is part of a file name without being the name of a file
TitleOne == <<"O","n","e">>

\* what extract_info returned and left in the temp directory in the runs of
\* the system: a single item with its exact file, with one file under
\* another name, with several files none of which has the title, with
\* several files the second of which has the title, and without any .mp3
\* file (playlists are looked up in LookupSpec)
EngineRuns ==
    { [info |-> [title |-> SongOne, id |-> IdA, entries |-> << >>],
       listing |-> << FileSongOne >>],
      [info |-> [title |-> SongTwo, id |-> IdA, entries |-> << >>],
       listing |-> << FileWebm, FileSongOne >>],
      [info |-> [title |-> SongTwo, id |-> IdA, entries |-> << >>],
       listing |-> << FileSongOne, FileBSongTwo >>],
      [info |-> [title |-> TitleOne, id |-> IdA, entries |-> << >>],
       listing |-> << FileBSongTwo, FileSongOne >>],
      [info |-> [title |-> SongOne, id |-> IdA, entries |-> << >>],
       listing |-> << FileWebm >>] }

\* raises: extract_info raised message; else info and listing are what it
\* returned and left, and name is the deliverable found (None: the
\* single-item case with no .mp3 file)
EngineOutcomes ==
    { [raises |-> TRUE, message |-> MsgEngine, info |-> ExampleInfo,
       listing |-> << >>, name |-> None] }
    \cup { [raises |-> FALSE, message |-> None, info |-> r.info, listing |-> r.listing,
            name |-> Deliverable(r.info, r.listing).name] : r \in EngineRuns }

\* str(exc) of the exception the worker body ends in, None when it ends well
OutcomeError(out) ==
    IF out.raises THEN out.message
    ELSE IF out.name = None THEN MsgNotFound
    ELSE None

\* ---------------------------------------------------------------------
\* State
\* ---------------------------------------------------------------------
ProgIds == {1}
\* /progress jobs of an earlier run, of which only the Job, its directory and
\* its timer are left
EarlierIds == {2}
DlIds == 1..NumDownloads
FetchIds == {1}

\* uuid4 tokens: job p gets token p
Token(p) == p
Tokens == {Token(p) : p \in ProgIds \cup EarlierIds}

\* tempfile.mkdtemp: a fresh directory per request
ProgDir(p) == <<"ydl", "progress", p>>
FetchDir(f) == <<"ydl", "fetch", f>>

\* os.path.join(tempdir, name) and os.path.dirname
PathJoin(dir, name) == [dir |-> dir, name |-> name]
Dirname(path) == path.dir

VARIABLES
    API_KEY,       \* os.environ.get('API_KEY') at start-up
    load,          \* the download and fetch requests clients send in this run
    call,          \* a single call of progress_hook: its argument and what it pushed
    clock,         \* time.time(), in seconds since start-up
    JOBS,          \* token -> [path, filename, expires_at]
    dirs,          \* the temp directories that exist on disk
    status,        \* /progress request p: 0 before it arrives, then its HTTP status
    gpc,           \* position of generate() of job p
    stream,        \* what generate() of job p has yielded so far
    wpc,           \* position of run_download() of job p
    hooks,         \* progress_hook calls made in job p
    event_queue,   \* event_queue of job p
    finished,      \* finished['done'] of job p
    result,        \* result of job p
    final,         \* final_path / final_name of run_download of job p
    timer,         \* the threading.Timer of schedule_job_cleanup(token)
    dl,            \* GET /download/<token> request d
    fetch          \* GET /fetch request f

vars == << API_KEY, load, call, clock, JOBS, dirs, status, gpc, stream, wpc, hooks,
           event_queue, finished, result, final, timer, dl, fetch >>

envVars == << API_KEY, load, call >>
progVars == << status, gpc, stream, wpc, hooks, event_queue, finished, result, final >>
genVars == << status, gpc, stream >>
workerVars == << wpc, hooks, finished, result, final >>

NoResult == [success |-> FALSE, final_path |-> Null, final_name |-> None, error |-> None]
NoTimer == [pc |-> "none", fire_at |-> 0, job |-> Null]
NoDownload == [pc |-> "idle", token |-> 0, job |-> Null, status |-> 0]
NoFetch == [pc |-> "idle", status |-> 0, error |-> None, logged |-> FALSE]

\* the requests of one run: a /progress job with downloads racing for its
\* token, or fetches, or downloads and timers of the jobs that ran before
\* (jobs: the /progress jobs of the run, every other /progress request
\* being one that validation rejects; prior: the jobs have run and handed
\* their deliverables to JOBS when the run begins)
Workloads ==
    { [downloads |-> NumDownloads, fetches |-> 0, jobs |-> {1}, prior |-> FALSE],
      [downloads |-> 0, fetches |-> Cardinality(FetchIds), jobs |-> {}, prior |-> FALSE],
      [downloads |-> NumDownloads, fetches |-> 0, jobs |-> ProgIds \cup EarlierIds,
       prior |-> TRUE] }

\* nothing has been requested yet
Idle ==
    /\ clock = 0
    /\ JOBS = [t \in {} |-> Null]
    /\ dirs = {}
    /\ status = [p \in ProgIds |-> 0]
    /\ gpc = [p \in ProgIds |-> "none"]
    /\ stream = [p \in ProgIds |-> << >>]
    /\ wpc = [p \in ProgIds |-> "none"]
    /\ hooks = [p \in ProgIds |-> 0]
    /\ event_queue = [p \in ProgIds |-> << >>]
    /\ finished = [p \in ProgIds |-> FALSE]
    /\ result = [p \in ProgIds |-> NoResult]
    /\ final = [p \in ProgIds |-> Null]
    /\ timer = [t \in Tokens |-> NoTimer]
    /\ dl = [d \in DlIds |-> NoDownload]
    /\ fetch = [f \in FetchIds |-> NoFetch]

\* the Job a run with the file Song One.mp3 registers at time 0
HandedJob(p) ==
    [path |-> PathJoin(ProgDir(p), FileSongOne), filename |-> FileSongOne,
     expires_at |-> AUTO_CLEANUP_SECONDS]

\* every job has run without a hook call or a keep-alive, found its file,
\* registered its Job, armed its timer and ended its stream with done; so
\* have the jobs of the earlier run
Handed ==
    /\ clock = 0
    /\ JOBS = [t \in Tokens |-> HandedJob(t)]
    /\ dirs = {ProgDir(p) : p \in ProgIds \cup EarlierIds}
    /\ status = [p \in ProgIds |-> 200]
    /\ gpc = [p \in ProgIds |-> "end"]
    /\ stream = [p \in ProgIds |->
            << sse_event("progress", [status |-> "worker finished"]),
               sse_event("done", [token |-> Token(p), filename |-> FileSongOne]) >>]
    /\ wpc = [p \in ProgIds |-> "done"]
    /\ hooks = [p \in ProgIds |-> 0]
    /\ event_queue = [p \in ProgIds |-> << >>]
    /\ finished = [p \in ProgIds |-> TRUE]
    /\ result = [p \in ProgIds |->
            [success |-> TRUE, final_path |-> HandedJob(p).path,
             final_name |-> FileSongOne, error |-> None]]
    /\ final = [p \in ProgIds |-> [path |-> HandedJob(p).path, name |-> FileSongOne]]
    /\ timer = [t \in Tokens |->
            [pc |-> "armed", fire_at |-> AUTO_CLEANUP_SECONDS, job |-> Null]]
    /\ dl = [d \in DlIds |-> NoDownload]
    /\ fetch = [f \in FetchIds |-> NoFetch]

Init ==
    /\ API_KEY \in ApiKeyConfigs
    /\ load \in Workloads
    /\ call = Null
    /\ IF load.prior THEN Handed ELSE Idle

\* ---------------------------------------------------------------------
\* Request validation (app.py:273-286, app.py:479-491)
\* ---------------------------------------------------------------------
\* progress_sse without the is_youtube_url test
ProgressGateAnyUrl(url, key) ==
    IF ~Truthy(url) THEN 400
    ELSE IF Truthy(API_KEY) /\ ~Truthy(key) THEN 403
    ELSE IF Truthy(API_KEY) /\ key # API_KEY THEN 403
    ELSE 200

\* the status progress_sse answers before it starts a job; 200: it starts one
ProgressGate(url, key) ==
    IF ~Truthy(url) THEN 400
    ELSE IF Truthy(API_KEY) /\ ~Truthy(key) THEN 403
    ELSE IF Truthy(API_KEY) /\ key # API_KEY THEN 403
    ELSE IF ~UrlOk[url] THEN 400
    ELSE 200

\* the status fetch answers before it makes its temp directory; 200: it goes on
FetchGate(url, key) ==
    IF ~Truthy(url) THEN 400
    ELSE IF Truthy(API_KEY) /\ ~Truthy(key) THEN 403
    ELSE IF Truthy(API_KEY) /\ key # API_KEY THEN 403
    ELSE IF ~UrlOk[url] THEN 400
    ELSE 200

\* ---------------------------------------------------------------------
\* The registry (app.py:30-31): every access holds JOB_LOCK
\* ---------------------------------------------------------------------
\* JOBS.get(token) in place of JOBS.pop(token, None): the entry stays
JobsPopKeeps(jobs, token) ==
    IF token \in DOMAIN jobs
    THEN [job |-> jobs[token], jobs |-> jobs]
    ELSE [job |-> Null, jobs |-> jobs]

\* JOBS.pop(token, None): the job taken and the registry left
JobsPop(jobs, token) ==
    IF token \in DOMAIN jobs
    THEN [job |-> jobs[token],
          jobs |-> [t \in DOMAIN jobs \ {token} |-> jobs[t]]]
    ELSE [job |-> Null, jobs |-> jobs]

\* JOBS[token] = job
JobsPut(jobs, token, job) ==
    [t \in DOMAIN jobs \cup {token} |-> IF t = token THEN job ELSE jobs[t]]

\* a deletion that takes every temp directory along
RmtreeAll(ds, dir) == {}

\* shutil.rmtree(dir, ignore_errors=True)
Rmtree(ds, dir) == ds \ {dir}

\* ---------------------------------------------------------------------
\* GET /progress: progress_sse and the start of generate (app.py:272-318,
\* app.py:400-402, app.py:443)
\* ---------------------------------------------------------------------
ProgressRequest(p, url, key) ==
    /\ p \in load.jobs \/ ProgressGate(url, key) # 200
    /\ status[p] = 0
    /\ status' = [status EXCEPT ![p] = ProgressGate(url, key)]
    /\ IF ProgressGate(url, key) = 200
       THEN /\ dirs' = dirs \cup {ProgDir(p)}
            /\ gpc' = [gpc EXCEPT ![p] = "check"]
            /\ wpc' = [wpc EXCEPT ![p] = "engine"]
       ELSE UNCHANGED << dirs, gpc, wpc >>
    /\ UNCHANGED << envVars, clock, JOBS, stream, hooks, event_queue, finished,
                    result, final, timer, dl, fetch >>

\* ---------------------------------------------------------------------
\* run_download, the worker thread of job p (app.py:343-398)
\* ---------------------------------------------------------------------
\* push_event: append under queue_lock
push_event(q, evts) == q \o evts

\* the engine calls progress_hook(d) while extract_info runs
WorkerHook(p, d) ==
    /\ wpc[p] = "engine"
    /\ hooks[p] < MaxHooks
    /\ d = JobHookDict(hooks[p] + 1)
    /\ hooks' = [hooks EXCEPT ![p] = @ + 1]
    /\ event_queue' = [event_queue EXCEPT ![p] = push_event(@, progress_hook(d))]
    /\ UNCHANGED << envVars, clock, JOBS, dirs, genVars, wpc, finished, result,
                    final, timer, dl, fetch >>

\* extract_info returns or raises and the deliverable is looked up; an
\* exception is caught at app.py:392-394
WorkerExtract(p, out) ==
    /\ wpc[p] = "engine"
    /\ IF OutcomeError(out) = None
       THEN /\ final' = [final EXCEPT ![p] =
                    [path |-> PathJoin(ProgDir(p), out.name), name |-> out.name]]
            /\ wpc' = [wpc EXCEPT ![p] = "register"]
            /\ UNCHANGED result
       ELSE /\ result' = [result EXCEPT ![p].error = OutcomeError(out)]
            /\ wpc' = [wpc EXCEPT ![p] = "finally"]
            /\ UNCHANGED final
    /\ UNCHANGED << envVars, clock, JOBS, dirs, genVars, hooks, event_queue,
                    finished, timer, dl, fetch >>

\* the job record of app.py:385
NewJob(p) ==
    [path |-> final[p].path, filename |-> final[p].name,
     expires_at |-> clock + AUTO_CLEANUP_SECONDS]

\* a registration step that stores nothing
WorkerRegisterSkips(p) ==
    /\ wpc[p] = "register"
    /\ wpc' = [wpc EXCEPT ![p] = "arm"]
    /\ UNCHANGED << envVars, clock, JOBS, dirs, genVars, hooks, event_queue,
                    finished, result, final, timer, dl, fetch >>

\* with JOB_LOCK: JOBS[token] = {...}
WorkerRegister(p) ==
    /\ wpc[p] = "register"
    /\ JOBS' = JobsPut(JOBS, Token(p), NewJob(p))
    /\ wpc' = [wpc EXCEPT ![p] = "arm"]
    /\ UNCHANGED << envVars, clock, dirs, genVars, hooks, event_queue,
                    finished, result, final, timer, dl, fetch >>

\* schedule_job_cleanup(token) starts the timer; then result is filled in
WorkerArm(p) ==
    /\ wpc[p] = "arm"
    /\ timer' = [timer EXCEPT ![Token(p)] =
            [pc |-> "armed", fire_at |-> clock + AUTO_CLEANUP_SECONDS, job |-> Null]]
    /\ result' = [result EXCEPT ![p] =
            [success |-> TRUE, final_path |-> final[p].path,
             final_name |-> final[p].name, error |-> None]]
    /\ wpc' = [wpc EXCEPT ![p] = "finally"]
    /\ UNCHANGED << envVars, clock, JOBS, dirs, genVars, hooks, event_queue,
                    finished, final, dl, fetch >>

\* Timer.start() raises (no thread can be started): caught at app.py:392-394
WorkerArmFails(p) ==
    /\ wpc[p] = "arm"
    /\ result' = [result EXCEPT ![p].error = MsgTimer]
    /\ wpc' = [wpc EXCEPT ![p] = "finally"]
    /\ UNCHANGED << envVars, clock, JOBS, dirs, genVars, hooks, event_queue,
                    finished, final, timer, dl, fetch >>

\* finally: finished['done'] = True
WorkerFinish(p) ==
    /\ wpc[p] = "finally"
    /\ finished' = [finished EXCEPT ![p] = TRUE]
    /\ wpc' = [wpc EXCEPT ![p] = "last_push"]
    /\ UNCHANGED << envVars, clock, JOBS, dirs, genVars, hooks, event_queue,
                    result, final, timer, dl, fetch >>

\* finally: push_event('progress', {'status': 'worker finished'})
WorkerFinished == sse_event("progress", [status |-> "worker finished"])
WorkerLastPush(p) ==
    /\ wpc[p] = "last_push"
    /\ event_queue' = [event_queue EXCEPT ![p] = push_event(@, << WorkerFinished >>)]
    /\ wpc' = [wpc EXCEPT ![p] = "done"]
    /\ UNCHANGED << envVars, clock, JOBS, dirs, genVars, hooks, finished,
                    result, final, timer, dl, fetch >>

\* ---------------------------------------------------------------------
\* generate, the streaming side of job p (app.py:404-441)
\* ---------------------------------------------------------------------
\* a loop test that looks at the queue only
LoopCondQueueOnly(fin, q) == q # << >>

\* the loop test: not finished['done'] or event_queue
LoopCond(fin, q) == ~fin \/ q # << >>

KeepAlives(st) == Cardinality({i \in 1..Len(st) : st[i] = KeepAlive})

IsTerminal(e) == e.event \in {"done", "error"}

\* while not finished['done'] or event_queue
GenCheck(p) ==
    /\ gpc[p] = "check"
    /\ gpc' = [gpc EXCEPT ![p] = IF LoopCond(finished[p], event_queue[p])
                                 THEN "poll" ELSE "result"]
    /\ UNCHANGED << envVars, clock, JOBS, dirs, status, stream, workerVars,
                    event_queue, timer, dl, fetch >>

\* a loop body that yields the first event and leaves it in the queue
GenPollKeeps(p) ==
    /\ gpc[p] = "poll"
    /\ IF event_queue[p] # << >>
       THEN stream' = [stream EXCEPT ![p] = Append(@, Head(event_queue[p]))]
       ELSE /\ KeepAlives(stream[p]) < MaxKeepAlive
            /\ stream' = [stream EXCEPT ![p] = Append(@, KeepAlive)]
    /\ gpc' = [gpc EXCEPT ![p] = "check"]
    /\ UNCHANGED << envVars, clock, JOBS, dirs, status, workerVars, event_queue,
                    timer, dl, fetch >>

\* the loop body: pop the first event under queue_lock and yield it, or
\* yield a keep-alive and sleep
GenPoll(p) ==
    /\ gpc[p] = "poll"
    /\ IF event_queue[p] # << >>
       THEN /\ stream' = [stream EXCEPT ![p] = Append(@, Head(event_queue[p]))]
            /\ event_queue' = [event_queue EXCEPT ![p] = Tail(@)]
       ELSE /\ KeepAlives(stream[p]) < MaxKeepAlive
            /\ stream' = [stream EXCEPT ![p] = Append(@, KeepAlive)]
            /\ UNCHANGED event_queue
    /\ gpc' = [gpc EXCEPT ![p] = "check"]
    /\ UNCHANGED << envVars, clock, JOBS, dirs, status, workerVars, timer, dl, fetch >>

\* the terminal event of app.py:421-424
TerminalEvent(p) ==
    IF result[p].success
    THEN sse_event("done", [token |-> Token(p), filename |-> result[p].final_name])
    ELSE sse_event("error", [error |-> IF Truthy(result[p].error)
                                       THEN result[p].error ELSE MsgUnknown])

\* the terminal event yielded inside the loop, which then goes on
AfterTerminalLoops(success) == "check"

\* where generate stands once it has yielded its terminal event
AfterTerminal(success) == IF success THEN "yield_done" ELSE "yield_error"

\* after the loop: yield done or error
GenResult(p) ==
    /\ gpc[p] = "result"
    /\ stream' = [stream EXCEPT ![p] = Append(@, TerminalEvent(p))]
    /\ gpc' = [gpc EXCEPT ![p] = AfterTerminal(result[p].success)]
    /\ UNCHANGED << envVars, clock, JOBS, dirs, status, workerVars, event_queue,
                    timer, dl, fetch >>

\* resumed after the done event: generate returns
GenReturn(p) ==
    /\ gpc[p] = "yield_done"
    /\ gpc' = [gpc EXCEPT ![p] = "end"]
    /\ UNCHANGED << envVars, clock, JOBS, dirs, status, stream, workerVars,
                    event_queue, timer, dl, fetch >>

\* resumed after the error event: shutil.rmtree(tempdir), then generate returns
GenCleanup(p) ==
    /\ gpc[p] = "yield_error"
    /\ dirs' = Rmtree(dirs, ProgDir(p))
    /\ gpc' = [gpc EXCEPT ![p] = "end"]
    /\ UNCHANGED << envVars, clock, JOBS, status, stream, workerVars,
                    event_queue, timer, dl, fetch >>

\* generate is suspended at one of its yield statements
AtYield(p) ==
    \/ gpc[p] \in {"yield_done", "yield_error"}
    \/ gpc[p] = "check" /\ stream[p] # << >>

\* a disconnect that deletes the job's temp directory
GenCloseRemoves(p) ==
    /\ AtYield(p)
    /\ gpc' = [gpc EXCEPT ![p] = "closed"]
    /\ dirs' = Rmtree(dirs, ProgDir(p))
    /\ UNCHANGED << envVars, clock, JOBS, status, stream, workerVars,
                    event_queue, timer, dl, fetch >>

\* a disconnect that also stops the worker thread where it stands
GenCloseStopsWorker(p) ==
    /\ AtYield(p)
    /\ gpc' = [gpc EXCEPT ![p] = "closed"]
    /\ wpc' = [wpc EXCEPT ![p] = IF @ = "done" THEN @ ELSE "stopped"]
    /\ UNCHANGED << envVars, clock, JOBS, dirs, status, stream, hooks, finished,
                    result, final, event_queue, timer, dl, fetch >>

\* the client disconnects: GeneratorExit is raised at the yield generate is
\* suspended at and caught at app.py:431-435; the worker is left alone
GenClose(p) ==
    /\ AtYield(p)
    /\ gpc' = [gpc EXCEPT ![p] = "closed"]
    /\ UNCHANGED << envVars, clock, JOBS, dirs, status, stream, workerVars,
                    event_queue, timer, dl, fetch >>

\* ---------------------------------------------------------------------
\* schedule_job_cleanup._cleanup, the timer thread of a token (app.py:35-43)
\* ---------------------------------------------------------------------
\* _cleanup without the `if job:` test
AfterCleanupPopAlways(job) == "rmtree"

\* where _cleanup goes once it has popped: to rmtree if it got a job
AfterCleanupPop(job) == IF job # Null THEN "rmtree" ELSE "done"

\* the timer fires: with JOB_LOCK: job = JOBS.pop(token, None)
TimerFire(t) ==
    /\ timer[t].pc = "armed"
    /\ clock >= timer[t].fire_at
    /\ JOBS' = JobsPop(JOBS, t).jobs
    /\ timer' = [timer EXCEPT ![t].job = JobsPop(JOBS, t).job,
                              ![t].pc = AfterCleanupPop(JobsPop(JOBS, t).job)]
    /\ UNCHANGED << envVars, clock, dirs, progVars, dl, fetch >>

\* if job: shutil.rmtree(os.path.dirname(job['path']), ignore_errors=True)
TimerRmtree(t) ==
    /\ timer[t].pc = "rmtree"
    /\ dirs' = Rmtree(dirs, Dirname(timer[t].job.path))
    /\ timer' = [timer EXCEPT ![t].pc = "done"]
    /\ UNCHANGED << envVars, clock, JOBS, progVars, dl, fetch >>

\* ---------------------------------------------------------------------
\* GET /download/<token>: download_token (app.py:449-471)
\* ---------------------------------------------------------------------
\* with JOB_LOCK: job = JOBS.pop(token, None); 404 if there is none.  The
\* X-API-Key header of the request is not read.  The download clients are
\* interchangeable, so they are numbered in the order their requests arrive.
DownloadRequest(d, token, key) ==
    /\ d <= load.downloads
    /\ token \in {Token(p) : p \in load.jobs}
    /\ dl[d].pc = "idle"
    /\ \A e \in 1..(d - 1) : dl[e].pc # "idle"
    /\ JOBS' = JobsPop(JOBS, token).jobs
    /\ dl' = [dl EXCEPT ![d] =
            IF JobsPop(JOBS, token).job = Null
            THEN [pc |-> "done", token |-> token, job |-> Null, status |-> 404]
            ELSE [pc |-> "send", token |-> token,
                  job |-> JobsPop(JOBS, token).job, status |-> 0]]
    /\ UNCHANGED << envVars, clock, dirs, progVars, timer, fetch >>

\* send_file(filepath, ...): opens the file, or raises when it is gone
DownloadSend(d) ==
    /\ dl[d].pc = "send"
    /\ dl' = [dl EXCEPT ![d].status =
                 IF Dirname(dl[d].job.path) \in dirs THEN 200 ELSE 500,
                        ![d].pc = "after"]
    /\ UNCHANGED << envVars, clock, JOBS, dirs, progVars, timer, fetch >>

\* after_this_request: shutil.rmtree(os.path.dirname(filepath), ignore_errors=True)
DownloadRemove(d) ==
    /\ dl[d].pc = "after"
    /\ dirs' = Rmtree(dirs, Dirname(dl[d].job.path))
    /\ dl' = [dl EXCEPT ![d].pc = "done"]
    /\ UNCHANGED << envVars, clock, JOBS, progVars, timer, fetch >>

\* ---------------------------------------------------------------------
\* GET /fetch: fetch (app.py:478-570)
\* ---------------------------------------------------------------------
\* validation, then tempfile.mkdtemp
FetchRequest(f, url, key) ==
    /\ f <= load.fetches
    /\ fetch[f].pc = "idle"
    /\ IF FetchGate(url, key) = 200
       THEN /\ dirs' = dirs \cup {FetchDir(f)}
            /\ fetch' = [fetch EXCEPT ![f].pc = "run"]
       ELSE /\ fetch' = [fetch EXCEPT ![f].pc = "done", ![f].status = FetchGate(url, key)]
            /\ UNCHANGED dirs
    /\ UNCHANGED << envVars, clock, JOBS, progVars, timer, dl >>

\* the engine runs; send_file on success; on an exception rmtree and the
\* response jsonify({'error': str(e)}), 500
FetchRun(f, out) ==
    /\ fetch[f].pc = "run"
    /\ IF OutcomeError(out) = None
       THEN /\ fetch' = [fetch EXCEPT ![f].pc = "after", ![f].status = 200]
            /\ UNCHANGED dirs
       ELSE /\ fetch' = [fetch EXCEPT ![f].pc = "after", ![f].status = 500,
                                      ![f].error = OutcomeError(out)]
            /\ dirs' = Rmtree(dirs, FetchDir(f))
    /\ UNCHANGED << envVars, clock, JOBS, progVars, timer, dl >>

\* an after-request cleanup that leaves the directory where it is
FetchCleanupKeeps(f) ==
    /\ fetch[f].pc = "after"
    /\ fetch' = [fetch EXCEPT ![f].pc = "done"]
    /\ UNCHANGED << envVars, clock, JOBS, dirs, progVars, timer, dl >>

\* after_this_request cleanup: shutil.rmtree(tempdir) without ignore_errors
\* raises when the directory is gone already; the error is logged and the
\* response returned as it is
FetchCleanup(f) ==
    /\ fetch[f].pc = "after"
    /\ fetch' = [fetch EXCEPT ![f].pc = "done", ![f].logged = FetchDir(f) \notin dirs]
    /\ dirs' = dirs \ {FetchDir(f)}
    /\ UNCHANGED << envVars, clock, JOBS, progVars, timer, dl >>

\* ---------------------------------------------------------------------
\* Time
\* ---------------------------------------------------------------------
\* a timer that has not fired yet
TimerPending(t) == timer[t].pc = "armed"

\* the clock advances; it is followed until every armed timer is due
Tick ==
    /\ \/ clock < MaxTicks * TickSeconds
       \/ \E t \in Tokens : TimerPending(t) /\ clock < timer[t].fire_at
    /\ clock' = clock + TickSeconds
    /\ UNCHANGED << envVars, JOBS, dirs, progVars, timer, dl, fetch >>

\* ---------------------------------------------------------------------
\* Specification
\* ---------------------------------------------------------------------
Worker(p) ==
    \/ \E d \in JobHookDicts : WorkerHook(p, d)
    \/ \E out \in EngineOutcomes : WorkerExtract(p, out)
    \/ WorkerRegister(p)
    \/ WorkerArm(p)
    \/ WorkerArmFails(p)
    \/ WorkerFinish(p)
    \/ WorkerLastPush(p)

Generate(p) ==
    \/ GenCheck(p)
    \/ GenPoll(p)
    \/ GenResult(p)
    \/ GenReturn(p)
    \/ GenCleanup(p)

Next ==
    \/ \E p \in ProgIds, url \in Urls, key \in HeaderKeys : ProgressRequest(p, url, key)
    \/ \E p \in ProgIds : Worker(p)
    \/ \E p \in ProgIds : Generate(p)
    \/ \E p \in ProgIds : GenClose(p)
    \/ \E t \in Tokens : TimerFire(t)
    \/ \E t \in Tokens : TimerRmtree(t)
    \/ \E d \in DlIds, token \in Tokens, key \in HeaderKeys : DownloadRequest(d, token, key)
    \/ \E d \in DlIds : DownloadSend(d)
    \/ \E d \in DlIds : DownloadRemove(d)
    \/ \E f \in FetchIds, url \in Urls, key \in HeaderKeys : FetchRequest(f, url, key)
    \/ \E f \in FetchIds, out \in EngineOutcomes : FetchRun(f, out)
    \/ \E f \in FetchIds : FetchCleanup(f)
    \/ Tick

Spec == Init /\ [][Next]_vars

\* Scheduling: every started thread keeps running (the engine returns or
\* raises in the end), every request being handled is finished, timers fire
\* when due and time passes.  Clients are free to send requests or not and
\* to disconnect or not.
Fairness ==
    /\ \A p \in ProgIds : WF_vars(Worker(p)) /\ WF_vars(Generate(p))
    /\ \A t \in Tokens : WF_vars(TimerFire(t)) /\ WF_vars(TimerRmtree(t))
    /\ \A d \in DlIds : WF_vars(DownloadSend(d)) /\ WF_vars(DownloadRemove(d))
    /\ \A f \in FetchIds : WF_vars(\E out \in EngineOutcomes : FetchRun(f, out))
                           /\ WF_vars(FetchCleanup(f))
    /\ WF_vars(Tick)

FairSpec == Spec /\ Fairness

\* ---------------------------------------------------------------------
\* progress_hook on its own: one call with any dict of HookDicts
\* ---------------------------------------------------------------------
NoLoad == [downloads |-> 0, fetches |-> 0, jobs |-> {}, prior |-> FALSE]

HookInit ==
    /\ API_KEY = None
    /\ load = NoLoad
    /\ call \in {[d |-> d, called |-> FALSE, pushed |-> << >>] : d \in HookDicts}
    /\ Idle

HookCall ==
    /\ ~call.called
    /\ call' = [call EXCEPT !.called = TRUE, !.pushed = push_event(<< >>, progress_hook(call.d))]
    /\ UNCHANGED << API_KEY, load, clock, JOBS, dirs, progVars, event_queue, timer, dl, fetch >>

HookSpec == HookInit /\ [][HookCall]_vars

\* ---------------------------------------------------------------------
\* sanitize_filename on its own: one call with any name of Names and the
\* default max_length
\* ---------------------------------------------------------------------
SanInit ==
    /\ API_KEY = None
    /\ load = NoLoad
    /\ call \in {[name |-> n, called |-> FALSE, out |-> << >>] : n \in Names}
    /\ Idle

SanCall ==
    /\ ~call.called
    /\ call' = [call EXCEPT !.called = TRUE,
                            !.out = sanitize_filename(call.name, DEFAULT_MAX_LENGTH)]
    /\ UNCHANGED << API_KEY, load, clock, JOBS, dirs, progVars, event_queue, timer, dl, fetch >>

SanSpec == SanInit /\ [][SanCall]_vars

\* ---------------------------------------------------------------------
\* the deliverable lookup on its own: one lookup for any info the engine
\* returns and any listing of the temp directory
\* ---------------------------------------------------------------------
LookupInit ==
    /\ API_KEY = None
    /\ load = NoLoad
    /\ call \in {[info |-> i, listing |-> l, called |-> FALSE, out |-> Null] :
                     i \in Infos, l \in Listings}
    /\ Idle

LookupCall ==
    /\ ~call.called
    /\ call' = [call EXCEPT !.called = TRUE, !.out = Deliverable(call.info, call.listing)]
    /\ UNCHANGED << API_KEY, load, clock, JOBS, dirs, progVars, event_queue, timer, dl, fetch >>

LookupSpec == LookupInit /\ [][LookupCall]_vars

\* =====================================================================
\* Properties
\* =====================================================================
\* the requests that took the job of token t out of the registry
DlOwners(t) == {d \in DlIds : dl[d].token = t /\ dl[d].job # Null}
TimerOwns(t) == timer[t].job # Null
OwnerCount(t) == Cardinality(DlOwners(t)) + (IF TimerOwns(t) THEN 1 ELSE 0)

\* the downloads of token t that were served the file
Served(t) == {d \in DlIds : dl[d].token = t /\ dl[d].status = 200}

\* C1: of the downloads and the reclamation timer of a token at most one
\* takes the Job out of JOBS; from then on the token is absent, every other
\* take gets nothing (404 for a download, no rmtree for the timer), the
\* file is served at most once and one owner at most deletes the directory.
C1_TakenOnce ==
    \A t \in Tokens :
        /\ OwnerCount(t) <= 1
        /\ OwnerCount(t) = 1 => t \notin DOMAIN JOBS
        /\ Cardinality(Served(t)) <= 1
        /\ \A d \in DlIds :
              dl[d].token = t /\ dl[d].job = Null => dl[d].status = 404 /\ dl[d].pc = "done"
        /\ timer[t].job = Null => timer[t].pc \in {"none", "armed", "done"}

\* a download was served, the other download of the token got 404 and the
\* timer fired for nothing
C1_Witness ==
    \E t \in Tokens, d1, d2 \in DlIds :
        /\ dl[d1].token = t /\ dl[d1].status = 200 /\ dl[d1].pc = "done"
        /\ dl[d2].token = t /\ dl[d2].status = 404
        /\ timer[t].pc = "done" /\ timer[t].job = Null

Terminals(st) == {i \in 1..Len(st) : IsTerminal(st[i])}

\* C2: a job's stream holds at most one terminal event (done or error),
\* nothing is written after it, and a stream that ended with the client
\* connected holds exactly one.
C2_OneTerminalLast ==
    \A p \in ProgIds :
        /\ Cardinality(Terminals(stream[p])) <= 1
        /\ \A i \in Terminals(stream[p]) : i = Len(stream[p])
        /\ gpc[p] \in {"yield_done", "yield_error", "end"}
              => Cardinality(Terminals(stream[p])) = 1

\* a stream that ended after a progress event, a keep-alive and its terminal
\* event, while the worker's last event sits in the queue
C2_Witness ==
    \E p \in ProgIds :
        /\ gpc[p] = "end"
        /\ \E i, j \in 1..Len(stream[p]) :
              stream[p][i] = KeepAlive /\ stream[p][j].event = "progress"
        /\ IsTerminal(stream[p][Len(stream[p])])

\* C3: when the stream of a connected client has ended, every event the
\* worker pushed has been delivered: none is left in the queue.
C3_NoEventDropped ==
    \A p \in ProgIds : gpc[p] = "end" => event_queue[p] = << >>

\* a request's X-API-Key header fails the configured secret
BadKey(key) == Truthy(API_KEY) /\ key # API_KEY

\* C4: with API_KEY configured, a request whose X-API-Key header is missing
\* or differs has no effect on any of the three endpoints: /progress and
\* /fetch make no temp directory and start nothing, /download/<token> takes
\* no Job out of the registry and serves no file.
C4_NoEffectWithoutKey ==
    [][ /\ \A p \in ProgIds : status'[p] # status[p] =>
              \A url \in Urls, key \in HeaderKeys :
                  ProgressRequest(p, url, key) /\ BadKey(key)
                      => dirs' = dirs /\ wpc' = wpc /\ JOBS' = JOBS
        /\ \A f \in FetchIds : fetch[f].pc = "idle" /\ fetch'[f].pc # "idle" =>
              \A url \in Urls, key \in HeaderKeys :
                  FetchRequest(f, url, key) /\ BadKey(key)
                      => dirs' = dirs /\ JOBS' = JOBS
        /\ \A d \in DlIds : dl[d].pc = "idle" /\ dl'[d].pc # "idle" =>
              \A t \in Tokens, key \in HeaderKeys :
                  DownloadRequest(d, t, key) /\ BadKey(key)
                      => JOBS' = JOBS /\ dl'[d].job = Null
      ]_vars

\* C6: once the worker of a job has ended in failure and generate has
\* returned (the stream ended, or the client had disconnected), the job's
\* temp directory is deleted.
C6_FailedJobDirDeleted ==
    \A p \in ProgIds :
        wpc[p] = "done" /\ ~result[p].success /\ gpc[p] \in {"end", "closed"}
            => ProgDir(p) \notin dirs

\* the token's Job was taken by a download
ConsumedByDownload(t) == DlOwners(t) # {}

\* C8: a reclamation timer that fires after a download took its token
\* deletes no directory, leaves JOBS as it is and ends without an error.
C8_LateTimerNoOp ==
    [][ \A t \in ProgIds :
            ConsumedByDownload(t) /\ TimerFire(t)
                => dirs' = dirs /\ JOBS' = JOBS /\ timer'[t].pc = "done"
      ]_vars

\* the timer fired for nothing while the download that took the token had
\* not removed the directory yet
C8_Witness ==
    \E t \in ProgIds, d \in DlIds :
        /\ dl[d].token = t /\ dl[d].job # Null /\ dl[d].pc \in {"send", "after"}
        /\ timer[t].pc = "done" /\ timer[t].job = Null
        /\ Dirname(dl[d].job.path) \in dirs

\* the url of a request is missing or fails is_youtube_url
BadUrl(url) == ~Truthy(url) \/ ~UrlOk[url]

\* C9 as claimed: a /progress or /fetch request whose url is missing or
\* fails is_youtube_url is answered 400, and no temp directory is made, no
\* worker started and no Job registered.
C9_BadUrl400 ==
    [][ /\ \A p \in ProgIds : status'[p] # status[p] =>
              \A url \in Urls, key \in HeaderKeys :
                  ProgressRequest(p, url, key) /\ BadUrl(url)
                      => /\ status'[p] = 400
                         /\ dirs' = dirs /\ wpc' = wpc /\ gpc' = gpc /\ JOBS' = JOBS
        /\ \A f \in FetchIds : fetch[f].pc = "idle" /\ fetch'[f].pc # "idle" =>
              \A url \in Urls, key \in HeaderKeys :
                  FetchRequest(f, url, key) /\ BadUrl(url)
                      => /\ fetch'[f].status = 400 /\ fetch'[f].pc = "done"
                         /\ dirs' = dirs /\ JOBS' = JOBS
      ]_vars

\* the status a request with a bad url is rejected with: 403 when the url is
\* there but the key check, which comes first, fails; 400 otherwise
BadUrlStatus(url, key) ==
    IF Truthy(url) /\ BadKey(key) THEN 403 ELSE 400

\* C9 as amended: such a request is rejected with 400, or with 403 when
\* API_KEY is configured, the url is present and the X-API-Key header is
\* missing or differs; no temp directory is made, no worker started and
\* no Job registered.
C9_BadUrlRejected ==
    [][ /\ \A p \in ProgIds : status'[p] # status[p] =>
              \A url \in Urls, key \in HeaderKeys :
                  ProgressRequest(p, url, key) /\ BadUrl(url)
                      => /\ status'[p] = BadUrlStatus(url, key)
                         /\ dirs' = dirs /\ wpc' = wpc /\ gpc' = gpc /\ JOBS' = JOBS
        /\ \A f \in FetchIds : fetch[f].pc = "idle" /\ fetch'[f].pc # "idle" =>
              \A url \in Urls, key \in HeaderKeys :
                  FetchRequest(f, url, key) /\ BadUrl(url)
                      => /\ fetch'[f].status = BadUrlStatus(url, key)
                         /\ fetch'[f].pc = "done"
                         /\ dirs' = dirs /\ JOBS' = JOBS
      ]_vars

\* a /progress request and a /fetch request were rejected, one with 403 and
\* one with 400, and nothing was made for either
C9_Witness ==
    /\ \E p \in ProgIds : status[p] = 403 /\ gpc[p] = "none" /\ wpc[p] = "none"
    /\ \E f \in FetchIds : fetch[f].status = 400 /\ fetch[f].pc = "done"
    /\ dirs = {} /\ DOMAIN JOBS = {}

\* the Job of job p has been put in JOBS (it is there or somebody took it)
Registered(p) ==
    \/ /\ Token(p) \in DOMAIN JOBS
       /\ Dirname(JOBS[Token(p)].path) = ProgDir(p)
    \/ OwnerCount(Token(p)) = 1

\* schedule_job_cleanup has started the timer of job p
Armed(p) == timer[Token(p)].pc # "none"

\* C5: once the client has disconnected from the stream of a job, the
\* worker still runs to its end, and when it ends in success the Job is
\* registered under the job's token and its reclamation timer armed.
C5_WorkerSurvivesDisconnect ==
    \A p \in ProgIds :
        /\ (gpc[p] = "closed") ~> (wpc[p] = "done")
        /\ [](gpc[p] = "closed" /\ wpc[p] = "done" /\ result[p].success
                 => Registered(p) /\ Armed(p))

\* the client left before any terminal event, the worker ended in success
\* and its Job sits in JOBS with the timer pending
C5_Witness ==
    \E p \in ProgIds :
        /\ gpc[p] = "closed" /\ Terminals(stream[p]) = {}
        /\ wpc[p] = "done" /\ result[p].success
        /\ Token(p) \in DOMAIN JOBS /\ TimerPending(Token(p))

\* C7: a Job in the registry is removed from it in the end and its temp
\* directory deleted (by a download or by the reclamation timer).
C7_EventuallyReclaimed ==
    \A p \in ProgIds :
        (Token(p) \in DOMAIN JOBS)
            ~> (Token(p) \notin DOMAIN JOBS /\ ProgDir(p) \notin dirs)

\* the total size the engine reported: total_bytes, else
\* total_bytes_estimate; 0 when neither is known
KnownTotal(d) ==
    IF "total_bytes" \in DOMAIN d /\ d["total_bytes"] > 0 THEN d["total_bytes"]
    ELSE IF "total_bytes_estimate" \in DOMAIN d /\ d["total_bytes_estimate"] > 0
    THEN d["total_bytes_estimate"]
    ELSE 0
KnownDownloaded(d) ==
    IF "downloaded_bytes" \in DOMAIN d THEN d["downloaded_bytes"] ELSE 0

\* C10: a 'downloading' callback pushes one progress event whose percent is
\* null when the total is unknown or zero, and else is downloaded/total*100
\* and lies in [0,100].
C10_PercentInRange ==
    call.called /\ call.d["status"] = "downloading" =>
        /\ Len(call.pushed) = 1
        /\ LET pct == call.pushed[1].data.percent
               total == KnownTotal(call.d)
           IN  IF total = 0 THEN pct = Null
               ELSE /\ pct # Null
                    /\ pct.num * total = KnownDownloaded(call.d) * 100 * pct.den
                    /\ 0 <= pct.num /\ pct.num <= 100 * pct.den

MySong == <<"M","y"," ","S","o","n","g">>

\* C11: sanitize_filename turns the title "  My:/Song*?  " into "My Song"
\* and the empty title into the fallback name "untitled".
C11_SanitizeExamples ==
    call.called =>
        /\ call.name = TitleMySong => call.out = MySong
        /\ call.name = << >> => call.out = Untitled

\* C19: for every input, sanitize_filename with the default max_length
\* returns a non-empty string without any of \ / : * ? " < > |, without
\* leading or trailing whitespace, without two whitespace characters in a
\* row and of at most 200 characters; an empty or whitespace-only input
\* gives "untitled".
C19_SanitizedShape ==
    call.called =>
        LET out == call.out IN
        /\ out # None /\ Len(out) >= 1 /\ Len(out) <= 200
        /\ \A i \in 1..Len(out) : out[i] \notin UnsafeChars
        /\ ~IsSpace(out[1]) /\ ~IsSpace(out[Len(out)])
        /\ \A i \in 1..(Len(out) - 1) : ~(IsSpace(out[i]) /\ IsSpace(out[i + 1]))
        /\ (call.name # None /\ \A i \in 1..Len(call.name) : IsSpace(call.name[i]))
              => out = Untitled

\* a title of 203 characters was cut at 200 and lost the space the cut
\* ended in
C19_Witness ==
    /\ call.called
    /\ call.name = Repeat("a", DEFAULT_MAX_LENGTH - 1) \o <<" ", "b", "c">>
    /\ call.out = Repeat("a", DEFAULT_MAX_LENGTH - 1)

\* the entries of a playlist that are not empty, in order
RealEntries(info) == SelectSeq(info.entries, LAMBDA e : e # Null)

\* a file of the listing the entry can be matched to by id or title
Candidates(entry, listing) ==
    {i \in 1..Len(listing) :
        /\ IsMp3(listing[i])
        /\ \/ Truthy(entry.id) /\ Contains(listing[i], entry.id)
           \/ Contains(listing[i], EntryTitle(entry))}

\* the entry has its exact file or a candidate
Matched(entry, listing) ==
    Exists(listing, EntryTitle(entry) \o Mp3Ext) \/ Candidates(entry, listing) # {}

\* C12: the archive of a playlist holds, in the order of the entries, one
\* file per entry that has a match: the exact file <sanitized title>.mp3
\* when it exists, else the first .mp3 file of the directory whose name
\* contains the entry's id or sanitized title; entries without a match add
\* nothing and the lookup still ends well.  Entries a "Song One" and
\* b "Song Two" with files Song One.mp3 and b_Song_Two.mp3 give exactly
\* those two files.
C12_ArchiveMembers ==
    call.called /\ IsPlaylist(call.info) =>
        LET es == RealEntries(call.info)
            ls == call.listing
            hit == {k \in 1..Len(es) : Matched(es[k], ls)}
            \* the place in the archive of the k-th entry
            Place(k) == Cardinality({j \in hit : j <= k})
        IN  /\ call.out.zip /\ call.out.name # None
            /\ Len(call.out.members) = Cardinality(hit)
            /\ \A k \in hit :
                  LET member == call.out.members[Place(k)]
                      exact == EntryTitle(es[k]) \o Mp3Ext
                  IN  IF Exists(ls, exact) THEN member = exact
                      ELSE \E i \in Candidates(es[k], ls) :
                              /\ member = ls[i]
                              /\ \A j \in Candidates(es[k], ls) : i <= j
            /\ (call.info.entries = ExampleInfo.entries /\ ls \in ExampleListings)
                  => call.out.members = << FileSongOne, FileBSongTwo >>

\* the example was looked up with b_Song_Two.mp3 listed first
C12_Witness ==
    /\ call.called
    /\ call.info = ExampleInfo
    /\ call.listing = << FileBSongTwo, FileSongOne >>
    /\ call.out.members = << FileSongOne, FileBSongTwo >>

\* C18: a /fetch request that passed validation and has been answered has
\* no temp directory left, whether it ended well or not; a failure of the
\* engine or of the lookup is answered 500 with the message of the
\* exception; the after-request cleanup never changes the response, also
\* when its own deletion fails and is logged.
C18_FetchDirDeleted ==
    /\ [](\A f \in FetchIds :
            /\ fetch[f].pc = "done" /\ fetch[f].status \in {200, 500}
                   => FetchDir(f) \notin dirs
            /\ fetch[f].status = 500 => fetch[f].error \in {MsgEngine, MsgNotFound}
            /\ fetch[f].status = 200 => fetch[f].error = None
            /\ fetch[f].logged => fetch[f].status = 500)
    /\ [][ \A f \in FetchIds :
               /\ fetch[f].pc = "after" /\ fetch'[f].pc = "done"
                     => /\ fetch'[f].status = fetch[f].status
                        /\ fetch'[f].error = fetch[f].error
               /\ fetch[f].pc = "run" /\ fetch'[f].pc # "run" =>
                     \A out \in EngineOutcomes :
                         FetchRun(f, out) /\ OutcomeError(out) # None
                             => /\ fetch'[f].status = 500
                                /\ fetch'[f].error =
                                      (IF out.raises THEN out.message ELSE MsgNotFound)
         ]_vars

\* one fetch failed for want of an .mp3 file: it was answered 500, the
\* second deletion failed and was logged, the directory is gone
C18_Witness ==
    \E f \in FetchIds :
        /\ fetch[f].pc = "done" /\ fetch[f].status = 500
        /\ fetch[f].error = MsgNotFound /\ fetch[f].logged
        /\ FetchDir(f) \notin dirs

\* the progress events job p's worker has pushed so far, in order
Pushed(p) ==
    [k \in 1..hooks[p] |-> progress_hook(JobHookDict(k))[1]]
    \o (IF wpc[p] = "done" THEN << WorkerFinished >> ELSE << >>)

\* the progress events job p's stream has delivered, in order
Delivered(p) == SelectSeq(stream[p], LAMBDA e : e.event = "progress")

\* C13: the progress events a job's stream has delivered are, in the same
\* order and each once, the first of those the worker pushed, whatever
\* keep-alive comments lie between them; the others wait in the queue.
C13_Fifo ==
    \A p \in ProgIds :
        /\ Len(Delivered(p)) <= Len(Pushed(p))
        /\ Delivered(p) = SubSeq(Pushed(p), 1, Len(Delivered(p)))
        /\ event_queue[p] = SubSeq(Pushed(p), Len(Delivered(p)) + 1, Len(Pushed(p)))

\* a download report, a keep-alive and the worker's last event were
\* delivered in this order
C13_Witness ==
    \E p \in ProgIds :
        /\ Len(stream[p]) >= 3
        /\ stream[p][1] = progress_hook(JobHookDict(1))[1]
        /\ stream[p][2] = KeepAlive
        /\ stream[p][3] = WorkerFinished

\* the done events job p's stream has delivered
DoneEvents(p) == {i \in 1..Len(stream[p]) : stream[p][i].event = "done"}

\* the Job registered under token t, wherever it is now: in JOBS, or with
\* the download or the timer that took it
JobsOf(t) ==
    (IF t \in DOMAIN JOBS THEN {JOBS[t]} ELSE {})
    \cup {dl[d].job : d \in DlOwners(t)}
    \cup (IF TimerOwns(t) THEN {timer[t].job} ELSE {})

\* C14: when a done event has been delivered, the Job of its token has
\* been registered and its timer armed, the event names the job's token
\* and the filename stored in the Job, and as long as no download has
\* taken the Job and its expires_at has not come the Job is in JOBS, where
\* a GET /download/<token> finds it.
C14_DoneAfterRegistered ==
    /\ [](\A p \in ProgIds : \A i \in DoneEvents(p) :
            /\ Registered(p) /\ Armed(p)
            /\ stream[p][i].data.token = Token(p)
            /\ \A job \in JobsOf(Token(p)) :
                   /\ stream[p][i].data.filename = job.filename
                   /\ DlOwners(Token(p)) = {} /\ clock < job.expires_at
                          => Token(p) \in DOMAIN JOBS)
    /\ [][ \A d \in DlIds : dl[d].pc = "idle" /\ dl'[d].pc # "idle" =>
               \A p \in ProgIds, key \in HeaderKeys :
                   /\ DownloadRequest(d, Token(p), key)
                   /\ DoneEvents(p) # {} /\ DlOwners(Token(p)) = {}
                   /\ \A job \in JobsOf(Token(p)) : clock < job.expires_at
                   => /\ dl'[d].job # Null
                      /\ \A i \in DoneEvents(p) :
                            dl'[d].job.filename = stream[p][i].data.filename
         ]_vars

\* a download issued after the done event, 400 seconds into the retention
\* window, was served the file the event named
C14_Witness ==
    \E p \in ProgIds, d \in DlIds :
        /\ DoneEvents(p) # {}
        /\ dl[d].token = Token(p) /\ dl[d].status = 200
        /\ clock > 0 /\ clock < dl[d].job.expires_at
        /\ \A i \in DoneEvents(p) : dl[d].job.filename = stream[p][i].data.filename

\* generate of job p has left its loop
LoopLeft(p) == gpc[p] \in {"result", "yield_done", "yield_error", "end"}

\* C15: as long as the worker of a job has not set its completion flag the
\* stream has no terminal event and generate stays in its loop, where a
\* poll that finds the queue empty yields a keep-alive comment; and once
\* the flag is set, generate comes to its end with the terminal event
\* delivered, unless the client disconnects first.
C15_StreamOutlastsWorker ==
    /\ [](\A p \in ProgIds :
            /\ status[p] = 200 /\ ~finished[p]
                  => Terminals(stream[p]) = {} /\ ~LoopLeft(p)
            /\ gpc[p] = "end"
                  => stream[p] # << >> /\ IsTerminal(stream[p][Len(stream[p])]))
    /\ [][ \A p \in ProgIds :
               gpc[p] = "poll" /\ event_queue[p] = << >> /\ stream'[p] # stream[p]
                   => stream'[p] = Append(stream[p], KeepAlive) /\ gpc'[p] = "check"
         ]_vars
    /\ \A p \in ProgIds : finished[p] ~> (gpc[p] \in {"end", "closed"})

\* the stream waited with a keep-alive while the worker ran and ended
\* with the error event of a failed job
C15_Witness ==
    \E p \in ProgIds :
        /\ gpc[p] = "end" /\ finished[p]
        /\ stream[p][1] = KeepAlive
        /\ stream[p][Len(stream[p])].event = "error"

\* extract_info of job p returned a single item: its lookup found a file
\* that is no archive, or found none
SingleFound(p) == final[p] # Null /\ ~EndsWith(final[p].name, ZipExt)
SingleMissing(p) == result[p].error = MsgNotFound

\* the file the claim names for a single item: the exact file, else the
\* only .mp3 file, else the first that has the title in its name, else the
\* first; None when the directory has no .mp3 file
Candidate(info, listing) ==
    LET title == SingleTitle(info)
        mp3 == {i \in 1..Len(listing) : IsMp3(listing[i])}
        named == {i \in mp3 : Contains(listing[i], title)}
        First(S) == CHOOSE i \in S : \A j \in S : i <= j
    IN  IF \E i \in 1..Len(listing) : listing[i] = title \o Mp3Ext THEN title \o Mp3Ext
        ELSE IF mp3 = {} THEN None
        ELSE IF Cardinality(mp3) = 1 THEN listing[First(mp3)]
        ELSE IF named # {} THEN listing[First(named)]
        ELSE listing[First(mp3)]

\* the lookup step of a single item takes the candidate the claim names as
\* the deliverable, and raises "expected mp3 file not found after download"
\* when there is none
LookupStep ==
    \A p \in ProgIds : wpc[p] = "engine" /\ wpc'[p] # "engine" =>
        \A out \in EngineOutcomes :
            WorkerExtract(p, out) /\ ~out.raises /\ ~IsPlaylist(out.info) =>
                IF Candidate(out.info, out.listing) # None
                THEN /\ wpc'[p] = "register"
                     /\ final'[p].name = Candidate(out.info, out.listing)
                     /\ result'[p].error = None
                ELSE /\ wpc'[p] = "finally"
                     /\ final'[p] = Null
                     /\ result'[p].error = MsgNotFound

\* a job whose lookup found no file fails: it registers no Job, arms no
\* timer, and the only terminal event its stream can have is the error
\* event with the message of the lookup
MissingFails(p) ==
    SingleMissing(p) =>
        /\ ~result[p].success /\ final[p] = Null
        /\ ~Registered(p) /\ ~Armed(p)
        /\ \A i \in Terminals(stream[p]) :
              stream[p][i] = sse_event("error", [error |-> MsgNotFound])

\* C16: a single-item job succeeds if and only if its lookup
\* finds a candidate file (the exact file, else the only .mp3, else the
\* first with the title in its name, else the first); without a candidate
\* it ends Failed, with the error event as terminal event and no Job
\* registered.
C16_SucceedsIffCandidate ==
    /\ [][LookupStep]_vars
    /\ [](\A p \in ProgIds :
            /\ MissingFails(p)
            /\ wpc[p] = "done" /\ (SingleFound(p) \/ SingleMissing(p))
                  => (result[p].success <=> SingleFound(p)))

\* in this step the entries of the tokens other than t stay in JOBS as
\* they are and no directory other than job t's is deleted
OthersKept(t) ==
    /\ \A u \in DOMAIN JOBS \ {t} : u \in DOMAIN JOBS' /\ JOBS'[u] = JOBS[u]
    /\ \A x \in dirs : x # ProgDir(t) => x \in dirs'

\* C17: GET /download/<token> for a token that is not in JOBS answers 404
\* and leaves JOBS and every temp directory as they are; the steps of a
\* download and of a reclamation timer of one token leave the entries of
\* the other tokens and the directories of the other jobs alone; a Job's
\* path lies in the directory of its own job.
C17_AbsentAndOthersUntouched ==
    /\ [](\A t \in DOMAIN JOBS : Dirname(JOBS[t].path) = ProgDir(t))
    /\ [][ /\ \A d \in DlIds : dl[d].pc = "idle" /\ dl'[d].pc # "idle" =>
                 \A t \in Tokens, key \in HeaderKeys :
                     DownloadRequest(d, t, key) =>
                         /\ OthersKept(t)
                         /\ t \notin DOMAIN JOBS
                               => /\ dl'[d].status = 404 /\ dl'[d].pc = "done"
                                  /\ JOBS' = JOBS /\ dirs' = dirs
           /\ \A d \in DlIds :
                 dl[d].pc \in {"send", "after"} /\ dl'[d].pc # dl[d].pc
                     => OthersKept(dl[d].token)
           /\ \A t \in Tokens :
                 timer[t].pc \in {"armed", "rmtree"} /\ timer'[t].pc # timer[t].pc
                     => OthersKept(t)
         ]_vars

\* one token was downloaded and its directory deleted, a second request
\* for it got 404, and the other token's Job and directory are still there
C17_Witness ==
    \E t, u \in Tokens, d, e \in DlIds :
        /\ t # u /\ d # e
        /\ dl[d].token = t /\ dl[d].status = 200 /\ dl[d].pc = "done"
        /\ dl[e].token = t /\ dl[e].status = 404
        /\ ProgDir(t) \notin dirs
        /\ u \in DOMAIN JOBS /\ ProgDir(u) \in dirs

\* C20 as claimed: the temp directory of a /progress job whose worker has
\* not set the completion flag exists.
C20_DirKeptWhileRunning ==
    \A p \in ProgIds : status[p] = 200 /\ ~finished[p] => ProgDir(p) \in dirs

\* C20 as amended: the temp directory of a /progress job whose worker has
\* not registered the Job yet exists; while the completion flag is unset,
\* neither the failure cleanup of the stream nor a disconnect deletes it,
\* only a download or a reclamation timer that took the registered Job.
C20_DirKeptUntilRegistered ==
    /\ [](\A p \in ProgIds :
            status[p] = 200 /\ ~finished[p] /\ ~Registered(p) => ProgDir(p) \in dirs)
    /\ [][ \A p \in ProgIds :
               ~finished[p] /\ ProgDir(p) \in dirs /\ ProgDir(p) \notin dirs'
                   => /\ gpc'[p] = gpc[p]
                      /\ \/ \E d \in DlOwners(Token(p)) :
                               dl[d].pc = "after" /\ dl'[d].pc = "done"
                         \/ /\ TimerOwns(Token(p))
                            /\ timer[Token(p)].pc = "rmtree"
                            /\ timer'[Token(p)].pc = "done"
         ]_vars

\* the client has left a job whose worker is still with the engine, a
\* download has asked for the job's token in vain, and the directory is there
C20_Witness ==
    \E p \in ProgIds, d \in DlIds :
        /\ gpc[p] = "closed" /\ wpc[p] = "engine" /\ ~finished[p]
        /\ dl[d].token = Token(p) /\ dl[d].status = 404
        /\ ProgDir(p) \in dirs

\* the stream of job p ended with an error event
EndedInError(p) ==
    /\ stream[p] # << >>
    /\ stream[p][Len(stream[p])].event = "error"

\* C21: JOBS holds an entry for a token only if that job succeeded: a job
\* whose stream ended with an error event leaves no entry in JOBS, also when
\* the failure was raised after the registration step, so that no entry of
\* JOBS points into a deleted directory.
C21_FailedJobNotRegistered ==
    \A p \in ProgIds :
        EndedInError(p)
            => /\ Token(p) \notin DOMAIN JOBS
               /\ \A t \in DOMAIN JOBS : Dirname(JOBS[t].path) # ProgDir(p)

\* the Job registered under token t is past its expires_at timestamp
Expired(t) == t \in DOMAIN JOBS /\ clock > JOBS[t].expires_at

\* C22: GET /download/<token> serves no Job whose expires_at has passed: a
\* request that arrives after expires_at is answered 404 and is handed no
\* Job, also when the reclamation timer of the token has not fired yet.
C22_ExpiredNotServed ==
    [][ \A d \in DlIds : dl[d].pc = "idle" /\ dl'[d].pc # "idle" =>
            \A t \in Tokens, key \in HeaderKeys :
                Expired(t) /\ DownloadRequest(d, t, key)
                    => dl'[d].status = 404 /\ dl'[d].job = Null
      ]_vars

====
